---------------------------- MODULE Spec2Model ----------------------------
(***************************************************************************)
(* A model of aaron-asm: the parser and label resolver (compiler.rs,       *)
(* syntax_tree.rs) and the register machine (vm.rs).                       *)
(*                                                                         *)
(* Number is num_bigint::BigInt and is modelled by Int.  Source text is a  *)
(* sequence of one-character strings.  Option::None of a usize is NoUsize. *)
(***************************************************************************)
EXTENDS Integers, Sequences, FiniteSets, TLC

VARIABLES
    text,             \* the source handed to from_str (a sequence of characters)
    compiled,         \* what Program::from_str returned for text
    ast,              \* the Ast that parse built inside from_str
    printed,          \* what Display for Program wrote (compile-only mode)
    reparsed,         \* what Program::from_str returned for printed
    program,          \* the Program that run() executes
    registers,        \* MachineState.registers
    program_counter,  \* MachineState.program_counter
    output,           \* what was written to MachineState.output
    status,           \* where the process is: see the run actions
    result,           \* the Number run() returned
    steps             \* iterations of the loop of run() so far

vars == <<text, compiled, ast, printed, reparsed, program, registers,
          program_counter, output, status, result, steps>>

(***************************************************************************)
(* Bounds of the model.                                                    *)
(***************************************************************************)
MaxProgLen == 2
MaxSteps == 5
MaxSrcLines == 2

(***************************************************************************)
(* vm.rs: constants.                                                       *)
(***************************************************************************)
MEMORY_LIMIT == 100000

NoUsize == -1

\* Number::to_usize: None for a negative number.  (It is also None above
\* usize::MAX, which no number of this model reaches.)
to_usize(num) == IF num < 0 THEN NoUsize ELSE num

(***************************************************************************)
(* syntax_tree.rs: operands and statements.                                *)
(***************************************************************************)
Direct(n) == [kind |-> "Direct", n |-> n]
Indirect(n) == [kind |-> "Indirect", n |-> n]

Immediate(n) == [kind |-> "Immediate", n |-> n]
Register(n) == [kind |-> "Register", n |-> n]
Pointer(n) == [kind |-> "Pointer", n |-> n]
Label(name) == [kind |-> "Label", name |-> name]
ProgramCounter == [kind |-> "ProgramCounter"]

Incr(index, value) == [op |-> "Incr", index |-> index, value |-> value]
Decr(index, address, value) ==
    [op |-> "Decr", index |-> index, address |-> address, value |-> value]
Save(index, value) == [op |-> "Save", index |-> index, value |-> value]
Putc(value) == [op |-> "Putc", value |-> value]
Putn(value) == [op |-> "Putn", value |-> value]
Halt == [op |-> "Halt"]

(***************************************************************************)
(* syntax_tree.rs: Line and Ast.  A String is the sequence of its          *)
(* characters; an Option is a record with a field some.                    *)
(***************************************************************************)
None == [some |-> FALSE]
Some(x) == [some |-> TRUE, val |-> x]

Line(label, statement) == [label |-> label, statement |-> statement]

(***************************************************************************)
(* compiler.rs: the character classes and the scanning helpers.  A         *)
(* ParseResult is Ok((val, rest)) or Err(err).                             *)
(***************************************************************************)
Lower == {"a", "b", "c", "d", "e", "f", "g", "h", "i", "j", "k", "l", "m",
          "n", "o", "p", "q", "r", "s", "t", "u", "v", "w", "x", "y", "z"}
Upper == {"A", "B", "C", "D", "E", "F", "G", "H", "I", "J", "K", "L", "M",
          "N", "O", "P", "Q", "R", "S", "T", "U", "V", "W", "X", "Y", "Z"}
DigitChars == <<"0", "1", "2", "3", "4", "5", "6", "7", "8", "9">>

is_ascii_alphabetic(ch) == ch \in Lower \cup Upper
is_ascii_digit(ch) == \E d \in 1..10 : DigitChars[d] = ch
is_ascii_alphanumeric(ch) == is_ascii_alphabetic(ch) \/ is_ascii_digit(ch)

Ok(val, rest) == [ok |-> TRUE, val |-> val, rest |-> rest]
Err(err) == [ok |-> FALSE, err |-> err]

\* &input[n..]
From(input, n) == SubSeq(input, n + 1, Len(input))

\* str::find with a predicate: the position of the first character that
\* satisfies it (from 0), or Len(input) + 1 for None
find(input, P(_)) ==
    IF \E i \in 1..Len(input) : P(input[i])
    THEN (CHOOSE i \in 1..Len(input) :
              P(input[i]) /\ \A j \in 1..(i - 1) : ~P(input[j])) - 1
    ELSE Len(input) + 1

is_space(ch) == ch = " " \/ ch = "\t"

parse_one(input, P(_)) ==
    IF Len(input) > 0 /\ P(input[1])
    THEN Some([ch |-> input[1], rest |-> From(input, 1)])
    ELSE None

\* parse_while: (the longest prefix satisfying P, the rest)
parse_while(input, P(_)) ==
    LET NotP(ch) == ~P(ch)
        pos == find(input, NotP)
    IN IF pos <= Len(input)
       THEN [head |-> SubSeq(input, 1, pos), rest |-> From(input, pos)]
       ELSE [head |-> input, rest |-> <<>>]

parse_skip(input, P(_)) ==
    LET NotP(ch) == ~P(ch)
        pos == find(input, NotP)
    IN IF pos <= Len(input) THEN From(input, pos) ELSE <<>>

parse_skip_until(input, P(_)) ==
    LET pos == find(input, P)
    IN IF pos <= Len(input) THEN From(input, pos + 1) ELSE <<>>

skip_space(input) == parse_skip(input, LAMBDA ch : ch = " " \/ ch = "\t")

skip_comment(input) == parse_skip_until(input, LAMBDA ch : ch = "\n")

parse_label(input) ==
    IF Len(input) = 0 THEN Ok(None, input)
    ELSE IF is_ascii_alphabetic(input[1])
    THEN LET w == parse_while(input, is_ascii_alphanumeric)
         IN Ok(Some(w.head), w.rest)
    ELSE IF is_space(input[1]) \/ input[1] \in {";", "\r", "\n"}
    THEN Ok(None, input)
    ELSE Err("InvalidLabel")

\* parse_identifier drops the result of its first test (`let _ = ...`), so
\* it never fails
parse_identifier(input) ==
    LET w == parse_while(input, is_ascii_alphanumeric)
    IN Ok(w.head, w.rest)

parse_mnemonic(input) ==
    LET w == parse_while(input, is_ascii_alphanumeric)
    IN CASE w.head = <<"i", "n", "c", "r">> -> Ok("Incr", w.rest)
         [] w.head = <<"d", "e", "c", "r">> -> Ok("Decr", w.rest)
         [] w.head = <<"s", "a", "v", "e">> -> Ok("Save", w.rest)
         [] w.head = <<"p", "u", "t", "c">> -> Ok("Putc", w.rest)
         [] w.head = <<"p", "u", "t", "n">> -> Ok("Putn", w.rest)
         [] w.head = <<"h", "a", "l", "t">> -> Ok("Halt", w.rest)
         [] OTHER -> Err("UnknownMnemonic")

\* skip_extra_field's Result<&str>: val is not used
skip_extra_field(input) ==
    LET rest == skip_space(input)
    IN IF Len(rest) = 0 THEN Ok(None, rest)
       ELSE IF rest[1] \in {";", "\n", "\r"} THEN Ok(None, skip_comment(rest))
       ELSE Err("ExtraOperand")

parse_operand_separator(input) ==
    LET comma == parse_one(skip_space(input), LAMBDA ch : ch = ",")
    IN IF comma.some THEN Ok(None, skip_space(comma.val.rest))
       ELSE Err("TooFewArguments")

(***************************************************************************)
(* compiler.rs: integers.  num.parse() reads the digits in base ten.       *)
(***************************************************************************)
DigitValue(ch) == (CHOOSE d \in 1..10 : DigitChars[d] = ch) - 1

RECURSIVE ParseDigits(_, _)
ParseDigits(digits, acc) ==
    IF Len(digits) = 0 THEN acc
    ELSE ParseDigits(Tail(digits), acc * 10 + DigitValue(digits[1]))

parse_integer(input) ==
    LET minus == parse_one(input, LAMBDA ch : ch = "-")
        sign == IF minus.some THEN "-" ELSE "+"
        rest == IF minus.some THEN minus.val.rest ELSE input
        zero == parse_one(rest, LAMBDA ch : ch = "0")
    IN IF zero.some /\ parse_one(zero.val.rest, is_ascii_digit).some
       THEN Err("ExtraZero")
       ELSE IF parse_one(rest, is_ascii_digit).some
       THEN LET w == parse_while(rest, is_ascii_digit)
                num == ParseDigits(w.head, 0)
            IN Ok(IF sign = "-" THEN -num ELSE num, w.rest)
       ELSE Err("ExpectInteger")

\* the `?` operator: go on with an Ok, return an Err
Try(r, F(_)) == IF r.ok THEN F(r) ELSE r

\* parse_one(rest, |ch| ch == ']') after val was read, with the error of
\* the callers
Close(val, rest) ==
    LET close == parse_one(rest, LAMBDA ch : ch = "]")
    IN IF close.some THEN Ok(val, close.val.rest) ELSE Err("UnclosedBracket")

\* `[ N ]` after the opening bracket: the integer and what follows the
\* closing bracket
Bracketed(input) ==
    Try(parse_integer(skip_space(input)),
        LAMBDA num : Close(num.val, skip_space(num.rest)))

parse_index(input) ==
    LET open == parse_one(input, LAMBDA ch : ch = "[")
    IN IF open.some
       THEN Try(Bracketed(open.val.rest), LAMBDA b : Ok(Indirect(b.val), b.rest))
       ELSE Try(parse_integer(input), LAMBDA num : Ok(Direct(num.val), num.rest))

\* the identifier branch shared by parse_address and parse_value
Identifier(ident) ==
    IF ident.val = <<"p", "c">>
    THEN Ok(ProgramCounter, ident.rest)
    ELSE Ok(Label(ident.val), ident.rest)

\* `else if let Ok((num, rest)) = parse_integer(input)` and the branch after
ImmediateOrIdentifier(num, input) ==
    IF num.ok THEN Ok(Immediate(num.val), num.rest)
    ELSE Identifier(parse_identifier(input))

parse_address(input) ==
    LET open == parse_one(input, LAMBDA ch : ch = "[")
    IN IF open.some
       THEN Try(Bracketed(open.val.rest), LAMBDA b : Ok(Register(b.val), b.rest))
       ELSE ImmediateOrIdentifier(parse_integer(input), input)

\* parse_value after one opening bracket
ValueBracket(rest) ==
    LET open2 == parse_one(rest, LAMBDA ch : ch = "[")
    IN IF open2.some
       THEN Try(Bracketed(open2.val.rest), LAMBDA b : Close(Pointer(b.val), b.rest))
       ELSE Try(Bracketed(rest), LAMBDA b : Ok(Register(b.val), b.rest))

parse_value(input) ==
    LET open == parse_one(input, LAMBDA ch : ch = "[")
    IN IF open.some
       THEN ValueBracket(open.val.rest)
       ELSE ImmediateOrIdentifier(parse_integer(input), input)

(***************************************************************************)
(* compiler.rs: statements and lines.                                      *)
(***************************************************************************)
\* parse_incr_operand after the index: the match on the separator
IncrAfterIndex(index, sep) ==
    IF ~sep.ok
    THEN Ok(Incr(index.val, Immediate(1)), index.rest)
    ELSE Try(parse_value(sep.rest), LAMBDA value :
         Try(skip_extra_field(skip_space(value.rest)), LAMBDA extra :
         Ok(Incr(index.val, value.val), extra.rest)))

parse_incr_operand(input) ==
    Try(parse_index(input), LAMBDA index :
    IncrAfterIndex(index, parse_operand_separator(index.rest)))

\* parse_decr_operand after the address: the match on the separator
DecrAfterAddress(index, address, sep) ==
    IF ~sep.ok
    THEN Try(skip_extra_field(address.rest), LAMBDA extra :
         Ok(Decr(index.val, address.val, Immediate(1)), extra.rest))
    ELSE Try(parse_value(sep.rest), LAMBDA value :
         Try(skip_extra_field(value.rest), LAMBDA extra :
         Ok(Decr(index.val, address.val, value.val), extra.rest)))

parse_decr_operand(input) ==
    Try(parse_index(input), LAMBDA index :
    Try(parse_operand_separator(index.rest), LAMBDA sep :
    Try(parse_address(sep.rest), LAMBDA address :
    DecrAfterAddress(index, address, parse_operand_separator(address.rest)))))

parse_save_operand(input) ==
    Try(parse_index(input), LAMBDA index :
    Try(parse_operand_separator(index.rest), LAMBDA sep :
    Try(parse_value(sep.rest), LAMBDA value :
    Try(skip_extra_field(value.rest), LAMBDA extra :
    Ok(Save(index.val, value.val), extra.rest)))))

parse_putc_operand(input) ==
    Try(parse_value(input), LAMBDA value :
    Try(skip_extra_field(value.rest), LAMBDA extra :
    Ok(Putc(value.val), extra.rest)))

parse_putn_operand(input) ==
    Try(parse_value(input), LAMBDA value :
    Try(skip_extra_field(value.rest), LAMBDA extra :
    Ok(Putn(value.val), extra.rest)))

parse_halt_operand(input) ==
    Try(skip_extra_field(input), LAMBDA extra : Ok(Halt, extra.rest))

\* parse_command after the mnemonic
Operands(mnemonic, rest) ==
    CASE mnemonic = "Incr" -> parse_incr_operand(rest)
      [] mnemonic = "Decr" -> parse_decr_operand(rest)
      [] mnemonic = "Save" -> parse_save_operand(rest)
      [] mnemonic = "Putc" -> parse_putc_operand(rest)
      [] mnemonic = "Putn" -> parse_putn_operand(rest)
      [] mnemonic = "Halt" -> parse_halt_operand(rest)

parse_command(input) ==
    Try(parse_mnemonic(input), LAMBDA mnemonic :
    Operands(mnemonic.val, skip_space(mnemonic.rest)))

RECURSIVE parse_line(_)

\* parse_line after the label and the spaces: the match on the next character
AfterLabel(label, rest) ==
    IF Len(rest) = 0 THEN Err("EndOfProgram")
    ELSE IF rest[1] \in {";", "\n"}
    THEN IF label.some THEN Err("LabelOnly") ELSE parse_line(skip_comment(rest))
    ELSE Try(parse_command(rest), LAMBDA command :
         Ok(Line(label, command.val), command.rest))

parse_line(input) ==
    Try(parse_label(input), LAMBDA label : AfterLabel(label.val, skip_space(label.rest)))

RECURSIVE ParseLines(_, _)

\* parse: the match on what parse_line returned, with the lines pushed so far
AfterLine(line, lines) ==
    IF line.ok THEN ParseLines(line.rest, Append(lines, line.val))
    ELSE IF line.err = "EndOfProgram" THEN [ok |-> TRUE, ast |-> lines]
    ELSE Err(line.err)

\* parse: the loop
ParseLines(input, lines) == AfterLine(parse_line(input), lines)

parse(input) == ParseLines(input, <<>>)

(***************************************************************************)
(* syntax_tree.rs: label resolution.  The HashMap of collect_labels is a   *)
(* function from the labels to line indexes (from 0).                      *)
(***************************************************************************)
\* an insert that keeps the entry a key already has
insert_KeepFirst(h, key, val) ==
    [k \in DOMAIN h \cup {key} |-> IF k \in DOMAIN h THEN h[k] ELSE val]

\* HashMap::insert
insert(h, key, val) ==
    [k \in DOMAIN h \cup {key} |-> IF k = key THEN val ELSE h[k]]

\* collect_labels after the first i lines
RECURSIVE CollectFrom(_, _, _)
CollectFrom(lines, i, h) ==
    IF i >= Len(lines) THEN h
    ELSE CollectFrom(lines, i + 1,
                     IF lines[i + 1].label.some
                     THEN insert(h, lines[i + 1].label.val, i)
                     ELSE h)

collect_labels(lines) == CollectFrom(lines, 0, <<>>)

\* Value::solve without the ProgramCounter arm
Value_solve_PcKept(v, labels, pc) ==
    CASE v.kind = "Label" ->
           IF v.name \in DOMAIN labels THEN Some(Immediate(labels[v.name])) ELSE None
      [] OTHER -> Some(v)

\* Value::solve
Value_solve(v, labels, pc) ==
    CASE v.kind = "Label" ->
           IF v.name \in DOMAIN labels THEN Some(Immediate(labels[v.name])) ELSE None
      [] v.kind = "ProgramCounter" -> Some(Immediate(pc + 1))
      [] OTHER -> Some(v)

\* Address::solve lowering pc to the line itself
Address_solve_CurrentLine(a, labels, pc) ==
    CASE a.kind = "Label" ->
           IF a.name \in DOMAIN labels THEN Some(Immediate(labels[a.name])) ELSE None
      [] a.kind = "ProgramCounter" -> Some(Immediate(pc))
      [] OTHER -> Some(a)

\* Address::solve
Address_solve(a, labels, pc) ==
    CASE a.kind = "Label" ->
           IF a.name \in DOMAIN labels THEN Some(Immediate(labels[a.name])) ELSE None
      [] a.kind = "ProgramCounter" -> Some(Immediate(pc + 1))
      [] OTHER -> Some(a)

\* the `?` operator on an Option
TrySome(o, F(_)) == IF o.some THEN F(o.val) ELSE None

\* the arm of the match of Program::new for one statement, at line pc
Lower1(x, labels, pc) ==
    CASE x.op = "Halt" -> Some(Halt)
      [] x.op = "Decr" ->
           TrySome(Address_solve(x.address, labels, pc), LAMBDA address :
           TrySome(Value_solve(x.value, labels, pc), LAMBDA value :
           Some(Decr(x.index, address, value))))
      [] x.op \in {"Incr", "Save"} ->
           TrySome(Value_solve(x.value, labels, pc), LAMBDA value :
           Some([op |-> x.op, index |-> x.index, value |-> value]))
      [] x.op \in {"Putc", "Putn"} ->
           TrySome(Value_solve(x.value, labels, pc), LAMBDA value :
           Some([op |-> x.op, value |-> value]))

\* Program::new: the loop from line pc on, with the statements pushed so far
RECURSIVE ProgramFrom(_, _, _, _)
ProgramFrom(lines, labels, pc, prog) ==
    IF pc >= Len(lines) THEN Some(prog)
    ELSE TrySome(Lower1(lines[pc + 1].statement, labels, pc), LAMBDA st :
         ProgramFrom(lines, labels, pc + 1, Append(prog, st)))

Program_new(lines) == ProgramFrom(lines, collect_labels(lines), 0, <<>>)

(***************************************************************************)
(* compiler.rs: impl from_str for Program.  The error is the Debug name of  *)
(* the ParseError, or "Unknown label".                                     *)
(***************************************************************************)
\* Program::new(ast).ok_or("Unknown label")
OkOrUnknownLabel(prog) ==
    IF prog.some THEN [ok |-> TRUE, program |-> prog.val] ELSE Err("Unknown label")

\* from_str: the match on what parse returned
AfterParse(parsed) ==
    IF parsed.ok THEN OkOrUnknownLabel(Program_new(parsed.ast)) ELSE Err(parsed.err)

from_str(source) == AfterParse(parse(source))

\* the Ast that from_str held, empty when parse failed
AstIn(parsed) == IF parsed.ok THEN parsed.ast ELSE <<>>

AstOf(source) == AstIn(parse(source))

(***************************************************************************)
(* syntax_tree.rs: Display.                                                *)
(***************************************************************************)
RECURSIVE Digits(_)
Digits(n) ==
    IF n < 10 THEN <<DigitChars[n + 1]>>
    ELSE Append(Digits(n \div 10), DigitChars[(n % 10) + 1])

\* Display for BigInt
DisplayNumber(n) == IF n < 0 THEN <<"-">> \o Digits(-n) ELSE Digits(n)

\* Display for Index, Value and Address
DisplayOperand(o) ==
    CASE o.kind \in {"Direct", "Immediate"} -> DisplayNumber(o.n)
      [] o.kind \in {"Indirect", "Register"} ->
           <<"[">> \o DisplayNumber(o.n) \o <<"]">>
      [] o.kind = "Pointer" ->
           <<"[", "[">> \o DisplayNumber(o.n) \o <<"]", "]">>
      [] o.kind = "Label" -> o.name
      [] o.kind = "ProgramCounter" -> <<"p", "c">>

DisplayStatement(x) ==
    CASE x.op = "Incr" ->
           <<"i", "n", "c", "r", " ">> \o DisplayOperand(x.index)
             \o <<",", " ">> \o DisplayOperand(x.value)
      [] x.op = "Decr" ->
           <<"d", "e", "c", "r", " ">> \o DisplayOperand(x.index)
             \o <<",", " ">> \o DisplayOperand(x.address)
             \o <<",", " ">> \o DisplayOperand(x.value)
      [] x.op = "Save" ->
           <<"s", "a", "v", "e", " ">> \o DisplayOperand(x.index)
             \o <<",", " ">> \o DisplayOperand(x.value)
      [] x.op = "Putc" -> <<"p", "u", "t", "c", " ">> \o DisplayOperand(x.value)
      [] x.op = "Putn" -> <<"p", "u", "t", "n", " ">> \o DisplayOperand(x.value)
      [] x.op = "Halt" -> <<"h", "a", "l", "t">>

\* Display for Program: each statement followed by a newline
RECURSIVE DisplayProgram(_)
DisplayProgram(prog) ==
    IF Len(prog) = 0 THEN <<>>
    ELSE DisplayStatement(prog[1]) \o <<"\n">> \o DisplayProgram(Tail(prog))

(***************************************************************************)
(* vm.rs: the register file.  registers is a Vec<Number>; the model keeps  *)
(* its length and its nonzero entries ([len |-> n, nz |-> f] stands for    *)
(* the vector of length n holding f[x] at x in DOMAIN f and 0 elsewhere),  *)
(* so that a vector of MEMORY_LIMIT + 1 entries is one small value.        *)
(***************************************************************************)
NewRegisters == [len |-> 1, nz |-> <<>>]

\* self.registers[x] for x < len
At(regs, x) == IF x \in DOMAIN regs.nz THEN regs.nz[x] ELSE 0

\* self.registers[x] = v for x < len
Store(regs, x, v) ==
    [len |-> regs.len,
     nz |-> [k \in (IF v = 0 THEN DOMAIN regs.nz \ {x} ELSE DOMAIN regs.nz \cup {x})
                |-> IF k = x THEN v ELSE regs.nz[k]]]

\* self.registers.resize_with(n, Default::default), only called to grow
Resize(regs, n) == [len |-> n, nz |-> regs.nz]

\* register reading register 0 for a number that is no usize
register_NegativeReadsFirst(regs, num) ==
    LET x == to_usize(num) IN
    IF x = NoUsize THEN At(regs, 0)
    ELSE IF regs.len <= x THEN 0 ELSE At(regs, x)

\* MachineState::register
register(regs, num) ==
    LET x == to_usize(num) IN
    IF x = NoUsize THEN 0
    ELSE IF regs.len <= x THEN 0 ELSE At(regs, x)

\* register_mut handing out register 0 for a number that is no usize
register_mut_NegativeWritesFirst(regs, num) ==
    LET x == to_usize(num) IN
    IF x = NoUsize THEN [exit |-> FALSE, regs |-> regs, x |-> 0]
    ELSE IF x > MEMORY_LIMIT THEN [exit |-> TRUE]
    ELSE [exit |-> FALSE,
          regs |-> IF regs.len <= x THEN Resize(regs, x + 1) ELSE regs,
          x |-> x]

\* register_mut with the limit off by one
register_mut_LimitOffByOne(regs, num) ==
    LET x == to_usize(num) IN
    IF x = NoUsize THEN [exit |-> TRUE]
    ELSE IF x > MEMORY_LIMIT + 1 THEN [exit |-> TRUE]
    ELSE [exit |-> FALSE,
          regs |-> IF regs.len <= x THEN Resize(regs, x + 1) ELSE regs,
          x |-> x]

\* MachineState::register_mut: exit(5), or the vector (grown if need be)
\* and the position of the entry the caller writes through.
register_mut(regs, num) ==
    LET x == to_usize(num) IN
    IF x = NoUsize THEN [exit |-> TRUE]
    ELSE IF x > MEMORY_LIMIT THEN [exit |-> TRUE]
    ELSE [exit |-> FALSE,
          regs |-> IF regs.len <= x THEN Resize(regs, x + 1) ELSE regs,
          x |-> x]

(***************************************************************************)
(* vm.rs: OperandEval.  pc is self.program_counter at the time of the call.*)
(* Label operands panic ("Invalid operand"); a Program has none.           *)
(***************************************************************************)
eval_Index(regs, i) ==
    IF i.kind = "Direct" THEN i.n ELSE register(regs, i.n)

eval_Value(regs, pc, v) ==
    CASE v.kind = "Immediate" -> v.n
      [] v.kind = "Register" -> register(regs, v.n)
      [] v.kind = "Pointer" -> register(regs, register(regs, v.n))
      [] v.kind = "ProgramCounter" -> pc

eval_Address(regs, pc, a) ==
    CASE a.kind = "Immediate" -> a.n
      [] a.kind = "Register" -> register(regs, a.n)
      [] a.kind = "ProgramCounter" -> pc


(***************************************************************************)
(* vm.rs: MachineState::run, one action for each way an iteration of its   *)
(* loop can go.  status is "running" while the loop runs, "returned" when  *)
(* run() returned, "exit4" and "exit5" after std::process::exit(4) and     *)
(* exit(5), and "panic" after a Rust panic.  steps counts the iterations   *)
(* and MaxSteps bounds them.                                               *)
(***************************************************************************)
Running == status = "running" /\ steps < MaxSteps

\* lines 60-71: the program counter as a usize, NoUsize when run() exits
PcUsize ==
    LET a == to_usize(program_counter) IN
    IF a = NoUsize THEN NoUsize
    ELSE IF a > Len(program) THEN NoUsize ELSE a

\* line 72: program[program_counter] is in bounds
Fetches == PcUsize # NoUsize /\ PcUsize < Len(program)

\* the statement fetched (Rust indexes from 0)
Current == program[PcUsize + 1]

Executes(op) == Running /\ Fetches /\ Current.op = op

UnchangedCompiler == UNCHANGED <<text, compiled, ast, printed, reparsed, program>>

\* lines 61-69: eprintln, std::process::exit(4)
RunInvalidPc ==
    /\ Running
    /\ PcUsize = NoUsize
    /\ status' = "exit4"
    /\ steps' = steps + 1
    /\ UNCHANGED <<registers, program_counter, output, result>>
    /\ UnchangedCompiler

\* line 72: the index equals program.len(), and indexing a Vec out of
\* bounds panics
RunOutOfBounds ==
    /\ Running
    /\ PcUsize # NoUsize
    /\ ~Fetches
    /\ status' = "panic"
    /\ steps' = steps + 1
    /\ UNCHANGED <<registers, program_counter, output, result>>
    /\ UnchangedCompiler

\* the sign test taking zero for negative
IncrWrites_ZeroIgnored(index) == index > 0

\* line 76: index.sign() != Sign::Minus
IncrWrites(index) == index >= 0

\* lines 73-80
RunIncr ==
    /\ Executes("Incr")
    /\ LET pc1 == program_counter + 1
           index == eval_Index(registers, Current.index)
           value == eval_Value(registers, pc1, Current.value)
           m == register_mut(registers, index)
       IN /\ program_counter' = pc1
          /\ IF ~IncrWrites(index)
             THEN /\ registers' = registers
                  /\ status' = status
             ELSE IF m.exit
             THEN /\ registers' = registers
                  /\ status' = "exit5"
             ELSE /\ registers' = Store(m.regs, m.x, At(m.regs, m.x) + value)
                  /\ status' = status
    /\ steps' = steps + 1
    /\ UNCHANGED <<output, result>>
    /\ UnchangedCompiler

\* the comparison made strict
DecrSubtracts_Strict(regs, index, value) == register(regs, index) > value

\* the comparison off by one: subtracts when the register is one short
DecrSubtracts_OneShort(regs, index, value) == register(regs, index) >= value - 1

\* line 86: self.register(index) >= *value
DecrSubtracts(regs, index, value) == register(regs, index) >= value

\* lines 81-91
RunDecr ==
    /\ Executes("Decr")
    /\ LET pc1 == program_counter + 1
           index == eval_Index(registers, Current.index)
           address == eval_Address(registers, pc1, Current.address)
           value == eval_Value(registers, pc1, Current.value)
           m == register_mut(registers, index)
       IN IF DecrSubtracts(registers, index, value)
          THEN /\ program_counter' = pc1
               /\ IF m.exit
                  THEN /\ registers' = registers
                       /\ status' = "exit5"
                  ELSE /\ registers' = Store(m.regs, m.x, At(m.regs, m.x) - value)
                       /\ status' = status
          ELSE /\ program_counter' = address
               /\ registers' = registers
               /\ status' = status
    /\ steps' = steps + 1
    /\ UNCHANGED <<output, result>>
    /\ UnchangedCompiler

\* lines 92-97
RunSave ==
    /\ Executes("Save")
    /\ LET pc1 == program_counter + 1
           index == eval_Index(registers, Current.index)
           value == eval_Value(registers, pc1, Current.value)
           m == register_mut(registers, index)
       IN /\ program_counter' = pc1
          /\ IF m.exit
             THEN /\ registers' = registers
                  /\ status' = "exit5"
             ELSE /\ registers' = Store(m.regs, m.x, value)
                  /\ status' = status
    /\ steps' = steps + 1
    /\ UNCHANGED <<output, result>>
    /\ UnchangedCompiler

\* line 101: value.to_u32().unwrap() and char::from_u32(..).unwrap() both
\* succeed: a Unicode scalar value
IsChar(value) ==
    /\ value >= 0
    /\ value <= 1114111
    /\ ~(value >= 55296 /\ value <= 57343)

\* lines 98-102
RunPutc ==
    /\ Executes("Putc")
    /\ LET pc1 == program_counter + 1
           value == eval_Value(registers, pc1, Current.value)
       IN /\ program_counter' = pc1
          /\ IF IsChar(value)
             THEN /\ output' = Append(output, <<"char", value>>)
                  /\ status' = status
             ELSE /\ output' = output
                  /\ status' = "panic"
    /\ steps' = steps + 1
    /\ UNCHANGED <<registers, result>>
    /\ UnchangedCompiler

\* lines 103-107
RunPutn ==
    /\ Executes("Putn")
    /\ LET pc1 == program_counter + 1
           value == eval_Value(registers, pc1, Current.value)
       IN /\ program_counter' = pc1
          /\ output' = Append(output, <<"number", value>>)
    /\ steps' = steps + 1
    /\ UNCHANGED <<registers, status, result>>
    /\ UnchangedCompiler

\* lines 108-110 and 114: break, then run() returns register 0
RunHalt ==
    /\ Executes("Halt")
    /\ status' = "returned"
    /\ result' = register(registers, 0)
    /\ steps' = steps + 1
    /\ UNCHANGED <<registers, program_counter, output>>
    /\ UnchangedCompiler

Run ==
    \/ RunInvalidPc
    \/ RunOutOfBounds
    \/ RunIncr
    \/ RunDecr
    \/ RunSave
    \/ RunPutc
    \/ RunPutn
    \/ RunHalt

(***************************************************************************)
(* The machine on its own: MachineState::new followed by run(program), for *)
(* the resolved programs of at most MaxProgLen statements over the         *)
(* operands below (register numbers on both sides of 0 and MEMORY_LIMIT).  *)
(***************************************************************************)
Indexes ==
    {Direct(n) : n \in {-1, 0, MEMORY_LIMIT + 1}} \cup {Indirect(0)}

Statements ==
    {Incr(i, v) : i \in Indexes \cup {Direct(1), Direct(MEMORY_LIMIT)},
                  v \in {Immediate(1), Register(0)}}
    \cup {Incr(Direct(0), Immediate(-1))}
    \cup {Save(i, Immediate(1)) : i \in Indexes \cup {Direct(1)}}
    \cup {Save(Direct(0), Immediate(MEMORY_LIMIT + 1)),
          Save(Direct(1), Register(0)),
          Save(Direct(0), Pointer(0))}
    \cup {Decr(i, a, v) : i \in Indexes,
                          a \in {Immediate(0), Immediate(3), Register(1)},
                          v \in {Immediate(1), Immediate(-1)}}
    \cup {Putc(Immediate(65)), Putc(Register(0)), Putn(Register(0)), Halt}
    \cup {Putn(Register(-1)), Putn(Register(2)), Putn(Pointer(0))}
    \cup {Decr(Direct(n), Immediate(0), Immediate(0)) : n \in {-1, MEMORY_LIMIT + 1}}

Programs == UNION {[1..n -> Statements] : n \in 0..MaxProgLen}

NoResult == [ok |-> FALSE, err |-> "none"]

Init ==
    /\ program \in Programs
    /\ registers = NewRegisters
    /\ program_counter = 0
    /\ output = <<>>
    /\ status = "running"
    /\ result = 0
    /\ steps = 0
    /\ text = <<>>
    /\ compiled = NoResult
    /\ ast = <<>>
    /\ printed = <<>>
    /\ reparsed = NoResult

Next == Run

Spec == Init /\ [][Next]_vars


(***************************************************************************)
(* main.rs: the tool on a source text.  Compile is contents.parse(), which *)
(* ends the process with status 1 on an error; PrintProgram is the         *)
(* compile-only mode; StartMachine is MachineState::new, after which run() *)
(* is the actions above; Reparse hands the printed text to the tool again. *)
(***************************************************************************)
UnchangedMachine == UNCHANGED <<registers, program_counter, output, result, steps>>

Compile ==
    /\ status = "source"
    /\ compiled' = from_str(text)
    /\ ast' = AstOf(text)
    /\ program' = IF compiled'.ok THEN compiled'.program ELSE <<>>
    /\ status' = IF compiled'.ok THEN "compiled" ELSE "exit1"
    /\ UNCHANGED <<text, printed, reparsed>>
    /\ UnchangedMachine

PrintProgram ==
    /\ status = "compiled"
    /\ printed' = DisplayProgram(program)
    /\ status' = "printed"
    /\ UNCHANGED <<text, compiled, ast, reparsed, program>>
    /\ UnchangedMachine

Reparse ==
    /\ status = "printed"
    /\ reparsed' = from_str(printed)
    /\ status' = "reparsed"
    /\ UNCHANGED <<text, compiled, ast, printed, program>>
    /\ UnchangedMachine

StartMachine ==
    /\ status = "compiled"
    /\ registers' = NewRegisters
    /\ program_counter' = 0
    /\ status' = "running"
    /\ UNCHANGED <<output, result, steps>>
    /\ UnchangedCompiler

(***************************************************************************)
(* The source texts: at most MaxSrcLines lines, joined by newlines, each   *)
(* one of SourceLines.  A line is written as its words; Chars spells a     *)
(* word out, and a word it does not list is a single character.            *)
(***************************************************************************)
Chars(w) ==
    CASE w = "incr" -> <<"i", "n", "c", "r">>
      [] w = "decr" -> <<"d", "e", "c", "r">>
      [] w = "save" -> <<"s", "a", "v", "e">>
      [] w = "putc" -> <<"p", "u", "t", "c">>
      [] w = "putn" -> <<"p", "u", "t", "n">>
      [] w = "halt" -> <<"h", "a", "l", "t">>
      [] w = "nop" -> <<"n", "o", "p">>
      [] w = "nowhere" -> <<"n", "o", "w", "h", "e", "r", "e">>
      [] w = "pc" -> <<"p", "c">>
      [] w = "65" -> <<"6", "5">>
      [] w = "01" -> <<"0", "1">>
      [] w = "-1" -> <<"-", "1">>
      [] w = ", " -> <<",", " ">>
      [] OTHER -> <<w>>

RECURSIVE Spell(_)
Spell(words) ==
    IF Len(words) = 0 THEN <<>> ELSE Chars(words[1]) \o Spell(Tail(words))

\* statements, each complete: what may follow is a comment
StatementLines ==
    {Spell(<<"\t", "halt">>),
     Spell(<<"\t", "incr", " ", "0">>),
     Spell(<<"\t", "incr", " ", "[", "0", "]", ", ", "-1">>),
     Spell(<<"\t", "decr", " ", "0", ", ", "pc">>),
     Spell(<<"\t", "decr", " ", "0", ", ", "x", ", ", "1">>),
     Spell(<<"\t", "decr", " ", "0", ",", "5">>),
     Spell(<<"\t", "decr", " ", "0", ", ", "nowhere">>),
     Spell(<<"\t", "save", " ", "0", ", ", "x">>),
     Spell(<<"\t", "save", " ", "1", ", ", "[", "[", " ", "0", " ", "]", "]">>),
     Spell(<<"\t", "putc", " ", "65">>),
     Spell(<<"\t", "putn", " ", "[", "0", "]">>),
     Spell(<<"\t", "putn", " ", "pc">>)}

\* a label in front of a statement
LabelledLines ==
    {Spell(<<"x", "\t", "halt">>),
     Spell(<<"x", " ", "save", " ", "0", ", ", "x">>),
     Spell(<<"x", " ", "decr", " ", "0", ", ", "pc">>),
     Spell(<<"\t", "incr", " ", "0", " ", ";", "c">>)}

\* a statement of each mnemonic and form, then a further token on the line
TrailingLines ==
    {Spell(<<"\t", "incr", " ", "0", " ", "halt">>),
     Spell(<<"\t", "incr", " ", "0", ", ", "1", " ", "halt">>),
     Spell(<<"\t", "decr", " ", "0", ", ", "0", " ", "halt">>),
     Spell(<<"\t", "decr", " ", "0", ", ", "0", ", ", "1", " ", "halt">>),
     Spell(<<"\t", "save", " ", "0", ", ", "1", " ", "halt">>),
     Spell(<<"\t", "putc", " ", "65", " ", "halt">>),
     Spell(<<"\t", "putn", " ", "1", " ", "halt">>),
     Spell(<<"\t", "halt", " ", "halt">>)}

\* a label and no mnemonic
LabelOnlyLines ==
    {Spell(<<"x">>), Spell(<<"x", " ">>), Spell(<<"x", " ", ";", "c">>)}

BlankLines == {<<>>, Spell(<<";", "c">>)}

BadLines ==
    {Spell(<<"\t", "incr", " ", "01">>),
     Spell(<<"\t", "save", " ", "0">>),
     Spell(<<"\t", "putn", " ", "[", "0">>),
     Spell(<<"\t", "nop">>),
     Spell(<<"decr", " ", "0", ", ", "nowhere">>),
     Spell(<<"1">>)}

SourceLines ==
    StatementLines \cup LabelledLines \cup TrailingLines \cup LabelOnlyLines
        \cup BlankLines \cup BadLines

RECURSIVE Join(_)
Join(lines) ==
    IF Len(lines) = 0 THEN <<>>
    ELSE IF Len(lines) = 1 THEN lines[1]
    ELSE lines[1] \o <<"\n">> \o Join(Tail(lines))

Texts == {Join(lines) : lines \in UNION {[1..n -> SourceLines] : n \in 0..MaxSrcLines}}

InitCompile ==
    /\ text \in Texts
    /\ status = "source"
    /\ compiled = NoResult
    /\ ast = <<>>
    /\ printed = <<>>
    /\ reparsed = NoResult
    /\ program = <<>>
    /\ registers = NewRegisters
    /\ program_counter = 0
    /\ output = <<>>
    /\ result = 0
    /\ steps = 0

NextCompile ==
    \/ Compile
    \/ PrintProgram
    \/ Reparse
    \/ StartMachine
    \/ Run

SpecCompile == InitCompile /\ [][NextCompile]_vars

(***************************************************************************)
(* What the claims speak of, stated apart from the machine's own           *)
(* operators: the value of register k (0 where nothing was written, and at *)
(* a negative k), the registers some state holds, and the value of an      *)
(* operand of a resolved program.                                          *)
(***************************************************************************)
Reg(regs, k) == IF k \in DOMAIN regs.nz THEN regs.nz[k] ELSE 0

Held(regs) == DOMAIN regs.nz

SameRegisters(r1, r2) == \A k \in Held(r1) \cup Held(r2) : Reg(r1, k) = Reg(r2, k)

SameRegistersBut(r1, r2, i) ==
    \A k \in (Held(r1) \cup Held(r2)) \ {i} : Reg(r1, k) = Reg(r2, k)

Operand(regs, o) ==
    CASE o.kind \in {"Direct", "Immediate"} -> o.n
      [] o.kind \in {"Indirect", "Register"} -> Reg(regs, o.n)
      [] o.kind = "Pointer" -> Reg(regs, Reg(regs, o.n))

Writable(i) == i >= 0 /\ i <= MEMORY_LIMIT

\* the statement run() executed last, in a state whose program counter that
\* statement advanced by one
Executed == program[program_counter]

Advanced == program_counter >= 1 /\ program_counter <= Len(program) /\ steps >= 1

(***************************************************************************)
(* C1: whenever the loop of run() is entered with the program counter      *)
(* equal to program.len() after some statement was executed, run()         *)
(* returns, and returns register 0.  The code indexes program[len] and     *)
(* panics.                                                                 *)
(***************************************************************************)
C1_FallThroughReturns ==
    [][(status = "running" /\ steps >= 1 /\ program_counter = Len(program))
       => (status' = "returned" /\ result' = Reg(registers, 0))]_vars

(***************************************************************************)
(* C2 as claimed: Decr(index, address, value) at pc = p subtracts v from   *)
(* register i and goes to p + 1 if register i >= v, and otherwise goes to  *)
(* a and keeps register i; no other register changes.                      *)
(***************************************************************************)
C2_DecrAsClaimed ==
    [][Executes("Decr") =>
        LET i == Operand(registers, Current.index)
            a == Operand(registers, Current.address)
            v == Operand(registers, Current.value)
        IN /\ SameRegistersBut(registers, registers', i)
           /\ IF Reg(registers, i) >= v
              THEN /\ Reg(registers', i) = Reg(registers, i) - v
                   /\ program_counter' = program_counter + 1
              ELSE /\ Reg(registers', i) = Reg(registers, i)
                   /\ program_counter' = a]_vars

(***************************************************************************)
(* C2 amended: as claimed when i is in 0..MEMORY_LIMIT; when register i    *)
(* >= v and i is negative or above MEMORY_LIMIT, the machine exits with    *)
(* status 5 and no register changes; when register i < v the jump is       *)
(* taken whatever i is.                                                    *)
(***************************************************************************)
C2_Decr ==
    [][Executes("Decr") =>
        LET i == Operand(registers, Current.index)
            a == Operand(registers, Current.address)
            v == Operand(registers, Current.value)
        IN /\ SameRegistersBut(registers, registers', i)
           /\ IF Reg(registers, i) >= v /\ Writable(i)
              THEN /\ Reg(registers', i) = Reg(registers, i) - v
                   /\ program_counter' = program_counter + 1
                   /\ status' = "running"
              ELSE IF Reg(registers, i) >= v
              THEN /\ Reg(registers', i) = Reg(registers, i)
                   /\ status' = "exit5"
              ELSE /\ Reg(registers', i) = Reg(registers, i)
                   /\ program_counter' = a
                   /\ status' = "running"]_vars

\* a Decr has subtracted from a register that held something
C2_Witness ==
    /\ Advanced
    /\ status = "running"
    /\ Executed.op = "Decr"
    /\ Executed.index = Direct(0)
    /\ Executed.value = Immediate(1)
    /\ Reg(registers, 0) = 0
    /\ program[1] = Incr(Direct(0), Immediate(1))
    /\ program_counter = 2

(***************************************************************************)
(* C3 as claimed: Incr(index, value) at pc = p adds v to register i when   *)
(* i >= 0 and changes no other register; it changes nothing and does not   *)
(* fault when i < 0; the program counter becomes p + 1.                    *)
(***************************************************************************)
C3_IncrAsClaimed ==
    [][Executes("Incr") =>
        LET i == Operand(registers, Current.index)
            v == Operand(registers, Current.value)
        IN /\ program_counter' = program_counter + 1
           /\ IF i >= 0
              THEN /\ Reg(registers', i) = Reg(registers, i) + v
                   /\ SameRegistersBut(registers, registers', i)
              ELSE /\ SameRegisters(registers, registers')
                   /\ status' = "running"]_vars

(***************************************************************************)
(* C3 amended: as claimed when i <= MEMORY_LIMIT; when i > MEMORY_LIMIT    *)
(* the machine exits with status 5 and no register changes.                *)
(***************************************************************************)
C3_Incr ==
    [][Executes("Incr") =>
        LET i == Operand(registers, Current.index)
            v == Operand(registers, Current.value)
        IN /\ program_counter' = program_counter + 1
           /\ IF Writable(i)
              THEN /\ Reg(registers', i) = Reg(registers, i) + v
                   /\ SameRegistersBut(registers, registers', i)
                   /\ status' = "running"
              ELSE IF i >= 0
              THEN /\ SameRegisters(registers, registers')
                   /\ status' = "exit5"
              ELSE /\ SameRegisters(registers, registers')
                   /\ status' = "running"]_vars

\* an Incr of register 0 has added 1 to it
C3_Witness ==
    /\ Advanced
    /\ status = "running"
    /\ program_counter = 1
    /\ Executed = Incr(Direct(0), Immediate(1))
    /\ Reg(registers, 0) = 1

(***************************************************************************)
(* C10: the register file never holds more than MEMORY_LIMIT + 1 entries,  *)
(* and an Incr, a Save or a subtracting Decr whose register index is above *)
(* MEMORY_LIMIT exits with status 5 and leaves the register file as it is. *)
(***************************************************************************)
WritesAbove ==
    /\ Running
    /\ Fetches
    /\ Current.op \in {"Incr", "Save", "Decr"}
    /\ Operand(registers, Current.index) > MEMORY_LIMIT
    /\ Current.op = "Decr" =>
         Reg(registers, Operand(registers, Current.index))
            >= Operand(registers, Current.value)

C10_RegisterFileBounded ==
    /\ [](registers.len <= MEMORY_LIMIT + 1)
    /\ [](\A k \in Held(registers) : k < registers.len)
    /\ [][WritesAbove => (status' = "exit5" /\ registers' = registers)]_vars

\* a Save to register MEMORY_LIMIT + 1 has stopped the machine
C10_Witness ==
    /\ Advanced
    /\ status = "exit5"
    /\ Executed.op = "Save"
    /\ Operand(registers, Executed.index) = MEMORY_LIMIT + 1
    /\ registers.len <= MEMORY_LIMIT + 1

(***************************************************************************)
(* What a read gives: 0 for a register number that is negative, that is    *)
(* not below the length of the vector, or that no statement of the program *)
(* can write (every index of the program is Direct and another number),    *)
(* and what the register holds otherwise.                                  *)
(***************************************************************************)
NeverWrites(k) ==
    \A n \in 1..Len(program) :
        program[n].op \in {"Incr", "Decr", "Save"}
            => (program[n].index.kind = "Direct" /\ program[n].index.n # k)

Absent(k) == k < 0 \/ k >= registers.len \/ NeverWrites(k)

ReadOf(k) == IF Absent(k) THEN 0 ELSE Reg(registers, k)

Reads(o) ==
    CASE o.kind \in {"Direct", "Immediate"} -> o.n
      [] o.kind \in {"Indirect", "Register"} -> ReadOf(o.n)
      [] o.kind = "Pointer" -> ReadOf(ReadOf(o.n))

Probes == {-1, 0, 1, 2, MEMORY_LIMIT, MEMORY_LIMIT + 1}

(***************************************************************************)
(* C11: a statement that only evaluates operands (putc, putn, halt, and an *)
(* incr whose index is negative) leaves the register file as it is,        *)
(* contents and length; and what a Value, an Address or the final read of  *)
(* register 0 yields is 0 for a register number that is negative, beyond   *)
(* the length of the vector or never written, in every reachable state.    *)
(***************************************************************************)
C11_ReadsArePure ==
    /\ [](\A k \in Probes : Absent(k) => Reg(registers, k) = 0)
    /\ [][(Running /\ Fetches /\ Current.op \in {"Putc", "Putn", "Halt"})
            => registers' = registers]_vars
    /\ [][(Executes("Incr") /\ Reads(Current.index) < 0)
            => (registers' = registers /\ status' = "running")]_vars
    /\ [][Executes("Putn")
            => output' = Append(output, <<"number", Reads(Current.value)>>)]_vars
    /\ [][Executes("Halt") => result' = ReadOf(0)]_vars
    /\ [][(/\ Executes("Decr")
           /\ status' = "running"
           /\ program_counter' # program_counter + 1)
            => program_counter' = Reads(Current.address)]_vars

\* register 0 holding 1, `putn [-1]` has written 0 and changed no register
C11_Witness ==
    /\ Advanced
    /\ status = "running"
    /\ program_counter = 2
    /\ program[1] = Incr(Direct(0), Immediate(1))
    /\ Executed = Putn(Register(-1))
    /\ output = <<<<"number", 0>>>>
    /\ Reg(registers, 0) = 1
    /\ registers.len = 1

(***************************************************************************)
(* C13: Save(index, value) with i in 0..MEMORY_LIMIT sets register i to    *)
(* the value read in the state before the write, changes no other          *)
(* register and goes to the next statement; with i negative (or above      *)
(* MEMORY_LIMIT) it exits with status 5 and writes nothing.                *)
(***************************************************************************)
C13_Save ==
    [][Executes("Save") =>
        LET i == Operand(registers, Current.index)
            v == Operand(registers, Current.value)
        IN /\ program_counter' = program_counter + 1
           /\ IF Writable(i)
              THEN /\ Reg(registers', i) = v
                   /\ SameRegistersBut(registers, registers', i)
                   /\ status' = "running"
              ELSE /\ registers' = registers
                   /\ status' = "exit5"]_vars

\* `save 1, 1` has set register 1, then `save -1, 1` has stopped the machine
C13_Witness ==
    /\ Advanced
    /\ program_counter = 2
    /\ program[1] = Save(Direct(1), Immediate(1))
    /\ Executed = Save(Direct(-1), Immediate(1))
    /\ status = "exit5"
    /\ Reg(registers, 1) = 1
    /\ Held(registers) = {1}

(***************************************************************************)
(* C14: a Decr whose comparison fails (register i < v, register i read as  *)
(* 0 when i is out of range) leaves the register file as it is, length     *)
(* included, does not fault whatever i is, and jumps; with i negative or   *)
(* above MEMORY_LIMIT a Decr faults exactly when v <= 0.                   *)
(***************************************************************************)
C14_FailedDecrWritesNothing ==
    [][Executes("Decr") =>
        LET i == Operand(registers, Current.index)
            a == Operand(registers, Current.address)
            v == Operand(registers, Current.value)
        IN /\ Reg(registers, i) < v
                => /\ registers' = registers
                   /\ status' = "running"
                   /\ program_counter' = a
           /\ ~Writable(i)
                => /\ Reg(registers, i) = 0
                   /\ registers' = registers
                   /\ (status' = "exit5") <=> (v <= 0)
                   /\ (status' = "running") <=> (v > 0)]_vars

\* register 0 holding 1, `decr [0], 0, 1` on register 1, which the vector
\* does not hold yet, has jumped to line 0 and the vector has not grown
C14_Witness ==
    /\ status = "running"
    /\ steps = 2
    /\ program_counter = 0
    /\ program[1] = Incr(Direct(0), Immediate(1))
    /\ program[2] = Decr(Indirect(0), Immediate(0), Immediate(1))
    /\ registers.len = 1
    /\ Reg(registers, 0) = 1


(***************************************************************************)
(* What the claims about the compiler speak of: the operands a statement   *)
(* has, the line a label names (the last that carries it, counted from 0), *)
(* the lines of a text, and the errors of the parser.                      *)
(***************************************************************************)
HasValue(st) == st.op \in {"Incr", "Decr", "Save", "Putc", "Putn"}
HasAddress(st) == st.op = "Decr"
HasIndex(st) == st.op \in {"Incr", "Decr", "Save"}

Carries(n, name) == ast[n].label = Some(name)

LastLine(name) ==
    (CHOOSE k \in 1..Len(ast) :
        Carries(k, name) /\ \A j \in (k + 1)..Len(ast) : ~Carries(j, name)) - 1

Symbolic(o) == o.kind \in {"Label", "ProgramCounter"}

RECURSIVE SplitLines(_)
SplitLines(t) ==
    IF \E i \in 1..Len(t) : t[i] = "\n"
    THEN LET i == CHOOSE i \in 1..Len(t) :
                      t[i] = "\n" /\ \A j \in 1..(i - 1) : t[j] # "\n"
         IN <<SubSeq(t, 1, i - 1)>> \o SplitLines(SubSeq(t, i + 1, Len(t)))
    ELSE <<t>>

HasLineIn(t, lines) == \E i \in 1..Len(SplitLines(t)) : SplitLines(t)[i] \in lines

ParseErrors ==
    {"InvalidLabel", "InvalidIdentifier", "LabelOnly", "UnknownMnemonic",
     "UnclosedBracket", "ExpectInteger", "ExpectValue", "ExtraZero",
     "ExtraOperand", "TooFewArguments", "ExpectAddress"}

ParseFailed == ~compiled.ok /\ compiled.err \in ParseErrors

(***************************************************************************)
(* C4: in a compiled program every Label(name) operand of the Ast, in      *)
(* Value and in Address position, has become Immediate(k), k the index     *)
(* from 0 of the last Ast line that carries the label; and the program     *)
(* `save 0, name` then `halt` returns that index.                          *)
(***************************************************************************)
C4_LabelIsLineIndex ==
    /\ compiled.ok =>
         \A n \in 1..Len(ast) :
            LET st == ast[n].statement IN
            /\ (HasValue(st) /\ st.value.kind = "Label")
                 => program[n].value = Immediate(LastLine(st.value.name))
            /\ (HasAddress(st) /\ st.address.kind = "Label")
                 => program[n].address = Immediate(LastLine(st.address.name))
    /\ (/\ status = "returned"
        /\ Len(ast) = 2
        /\ ast[1].statement.op = "Save"
        /\ ast[1].statement.index = Direct(0)
        /\ ast[1].statement.value.kind = "Label"
        /\ ast[2].statement = Halt)
         => result = LastLine(ast[1].statement.value.name)

\* `save 0, x` with x on both lines was run and returned 1, the second line
C4_Witness ==
    /\ status = "returned"
    /\ Len(ast) = 2
    /\ ast[1] = Line(Some(<<"x">>), Save(Direct(0), Label(<<"x">>)))
    /\ ast[2] = Line(Some(<<"x">>), Halt)
    /\ result = 1

(***************************************************************************)
(* C5: a compiled program has one statement for each line of the Ast, in   *)
(* the same order (the same mnemonic, index and non-symbolic operands),    *)
(* and none of its operands is a Label or a ProgramCounter.                *)
(***************************************************************************)
Lowered(from, to) == ~Symbolic(to) /\ (~Symbolic(from) => to = from)

C5_ProgramAlignedAndLowered ==
    compiled.ok =>
      /\ Len(program) = Len(ast)
      /\ \A n \in 1..Len(ast) :
            LET st == ast[n].statement IN
            /\ program[n].op = st.op
            /\ DOMAIN program[n] = DOMAIN st
            /\ HasIndex(st) => program[n].index = st.index
            /\ HasValue(st) => Lowered(st.value, program[n].value)
            /\ HasAddress(st) => Lowered(st.address, program[n].address)

\* a two-line source with a label operand and a pc operand was compiled
C5_Witness ==
    /\ status = "compiled"
    /\ Len(program) = 2
    /\ \E n \in 1..2 : HasValue(ast[n].statement)
                        /\ ast[n].statement.value.kind = "Label"
    /\ \E n \in 1..2 : HasValue(ast[n].statement)
                        /\ ast[n].statement.value = ProgramCounter

(***************************************************************************)
(* C6: a pc operand on the line of index n (from 0) is compiled to         *)
(* Immediate(n + 1), and `decr 0, pc` executed while register 0 is zero    *)
(* changes no register and goes on at the next line.                       *)
(***************************************************************************)
IsDecr0Pc(st) == st = Decr(Direct(0), ProgramCounter, Immediate(1))

C6_PcIsNextLine ==
    /\ [](compiled.ok =>
            \A n \in 1..Len(ast) :
               LET st == ast[n].statement IN
               /\ (HasValue(st) /\ st.value = ProgramCounter)
                    => program[n].value = Immediate(n)
               /\ (HasAddress(st) /\ st.address = ProgramCounter)
                    => program[n].address = Immediate(n))
    /\ [][(/\ Executes("Decr")
           /\ compiled.ok
           /\ IsDecr0Pc(ast[program_counter + 1].statement)
           /\ Reg(registers, 0) = 0)
          => (/\ registers' = registers
              /\ program_counter' = program_counter + 1
              /\ status' = "running")]_vars

\* `decr 0, pc` was the first statement executed, register 0 being zero
C6_Witness ==
    /\ status = "running"
    /\ steps = 1
    /\ program_counter = 1
    /\ IsDecr0Pc(ast[1].statement)
    /\ Reg(registers, 0) = 0

(***************************************************************************)
(* C7: the text Display writes for a compiled program is accepted by       *)
(* from_str and gives the same program.  The printed statements start in   *)
(* the first column, where the parser reads a label.                       *)
(***************************************************************************)
C7_RoundTrip ==
    status = "reparsed" => (reparsed.ok /\ reparsed.program = program)

(***************************************************************************)
(* C8: a source with a line on which a further token follows the final     *)
(* operand of a statement is a parse error.  `incr 0 halt` is read as two  *)
(* statements.                                                             *)
(***************************************************************************)
C8_TrailingTokenRejected ==
    (status # "source" /\ HasLineIn(text, TrailingLines)) => ParseFailed

(***************************************************************************)
(* C9: a source with a line that holds a label and no mnemonic is a parse  *)
(* error, whether a newline, a comment or the end of the text follows the  *)
(* label.  At the end of the text the line is dropped without an error.    *)
(***************************************************************************)
C9_LabelOnlyRejected ==
    (status # "source" /\ HasLineIn(text, LabelOnlyLines)) => ParseFailed

(***************************************************************************)
(* The labels a statement of the Ast refers to, and a parsed source with a *)
(* reference to a label that none of its lines carries.                    *)
(***************************************************************************)
Refs(st) ==
    {st[f].name : f \in {g \in DOMAIN st \cap {"value", "address"} :
                            st[g].kind = "Label"}}

Undefined ==
    \E n \in 1..Len(ast) : \E name \in Refs(ast[n].statement) :
        \A k \in 1..Len(ast) : ~Carries(k, name)

NoProgram(message) ==
    /\ ~compiled.ok
    /\ compiled.err = message
    /\ program = <<>>
    /\ status = "exit1"

Nowhere == Spell(<<"decr", " ", "0", ", ", "nowhere">>)

(***************************************************************************)
(* C12: a source that parses and refers, in Value or Address position, to  *)
(* a label none of its lines carries fails with "Unknown label" and gives  *)
(* no program; and so does the one-line source `decr 0, nowhere`.  The     *)
(* parser reads `decr` in the first column as a label, and the source      *)
(* fails with UnknownMnemonic before label resolution.                     *)
(***************************************************************************)
C12_UnknownLabel ==
    /\ (status # "source" /\ Undefined) => NoProgram("Unknown label")
    /\ (status # "source" /\ text = Nowhere) => NoProgram("Unknown label")

=============================================================================
